---- MODULE Spec2Model ----
(***************************************************************************)
(* The tableau simplex solver of src/src/main.rs as a state machine.       *)
(*                                                                         *)
(* The tableau holds f64 values.  A finite f64 is modelled exactly: it is  *)
(* the triple <<neg, m, e>> standing for (-1)^neg * m * 2^e, where m is an *)
(* arbitrary-precision natural number (a little-endian sequence of limbs   *)
(* in base 2^15) that is odd, or the triple Zero.  Every arithmetic        *)
(* operation computes the exact result and rounds it to 53 significant     *)
(* bits, ties to even, as IEEE 754 binary64 does.  Exponent overflow and   *)
(* subnormals are outside the value ranges explored here (see InRange),    *)
(* and the sign of zero is dropped: the program only compares zeros        *)
(* (-0.0 == 0.0, -0.0 >= 0.0) and never divides by one.                    *)
(***************************************************************************)
EXTENDS Integers, Sequences, FiniteSets, TLC

(***************************************************************************)
(* Arbitrary-precision naturals                                            *)
(***************************************************************************)
Base == 2^15

RECURSIVE NatBitLen(_)
NatBitLen(n) == IF n = 0 THEN 0 ELSE 1 + NatBitLen(n \div 2)

LimbBits == NatBitLen(Base) - 1

RECURSIVE Pow2(_)
Pow2(k) == IF k = 0 THEN 1 ELSE 2 * Pow2(k - 1)

RECURSIVE BNorm(_)
BNorm(x) ==
  IF x = <<>> THEN x
  ELSE IF x[Len(x)] = 0 THEN BNorm(SubSeq(x, 1, Len(x) - 1)) ELSE x

RECURSIVE BFromNat(_)
BFromNat(n) == IF n = 0 THEN <<>> ELSE <<n % Base>> \o BFromNat(n \div Base)

RECURSIVE BCmpFrom(_, _, _)
BCmpFrom(x, y, i) ==
  IF i = 0 THEN 0
  ELSE IF x[i] < y[i] THEN -1
  ELSE IF x[i] > y[i] THEN 1
  ELSE BCmpFrom(x, y, i - 1)

BCmp(x, y) ==
  IF Len(x) < Len(y) THEN -1
  ELSE IF Len(x) > Len(y) THEN 1
  ELSE BCmpFrom(x, y, Len(x))

Limb(x, i) == IF i <= Len(x) THEN x[i] ELSE 0

RECURSIVE BAddFrom(_, _, _, _)
BAddFrom(x, y, i, carry) ==
  IF i > Len(x) /\ i > Len(y)
  THEN (IF carry = 0 THEN <<>> ELSE <<carry>>)
  ELSE LET s == Limb(x, i) + Limb(y, i) + carry
       IN  <<s % Base>> \o BAddFrom(x, y, i + 1, s \div Base)

BAdd(x, y) == BAddFrom(x, y, 1, 0)

RECURSIVE BSubFrom(_, _, _, _)
BSubFrom(x, y, i, borrow) ==
  IF i > Len(x) THEN <<>>
  ELSE LET d == x[i] - Limb(y, i) - borrow
       IN  IF d < 0 THEN <<d + Base>> \o BSubFrom(x, y, i + 1, 1)
           ELSE <<d>> \o BSubFrom(x, y, i + 1, 0)

\* x - y for x >= y
BSub(x, y) == BNorm(BSubFrom(x, y, 1, 0))

RECURSIVE BMulSmallFrom(_, _, _, _)
BMulSmallFrom(x, d, i, carry) ==
  IF i > Len(x) THEN (IF carry = 0 THEN <<>> ELSE <<carry>>)
  ELSE LET p == x[i] * d + carry
       IN  <<p % Base>> \o BMulSmallFrom(x, d, i + 1, p \div Base)

\* x * d for a single limb d
BMulSmall(x, d) == IF d = 0 THEN <<>> ELSE BMulSmallFrom(x, d, 1, 0)

RECURSIVE Zeros(_)
Zeros(n) == IF n = 0 THEN <<>> ELSE <<0>> \o Zeros(n - 1)

BShiftLimbs(x, n) == IF x = <<>> THEN x ELSE Zeros(n) \o x

RECURSIVE BMulFrom(_, _, _)
BMulFrom(x, y, i) ==
  IF i > Len(y) THEN <<>>
  ELSE BAdd(BShiftLimbs(BMulSmall(x, y[i]), i - 1), BMulFrom(x, y, i + 1))

BMul(x, y) == BMulFrom(x, y, 1)

\* x * 2^s
BShl(x, s) == BShiftLimbs(BMulSmall(x, Pow2(s % LimbBits)), s \div LimbBits)

RECURSIVE BDivSmallFrom(_, _, _, _)
BDivSmallFrom(x, d, i, rem) ==
  IF i = 0 THEN <<>>
  ELSE LET cur == rem * Base + x[i]
       IN  BDivSmallFrom(x, d, i - 1, cur % d) \o <<cur \div d>>

\* floor(x / 2^s)
BShr(x, s) ==
  LET k == s \div LimbBits
      y == IF k >= Len(x) THEN <<>> ELSE SubSeq(x, k + 1, Len(x))
  IN  BNorm(BDivSmallFrom(y, Pow2(s % LimbBits), Len(y), 0))

BBitLen(x) ==
  IF x = <<>> THEN 0 ELSE LimbBits * (Len(x) - 1) + NatBitLen(x[Len(x)])

\* bit i (from 0, the least significant) of x
BBit(x, i) == (Limb(x, (i \div LimbBits) + 1) \div Pow2(i % LimbBits)) % 2

RECURSIVE NatTrailingZeros(_)
NatTrailingZeros(n) == IF n % 2 = 1 THEN 0 ELSE 1 + NatTrailingZeros(n \div 2)

RECURSIVE BTrailingZerosFrom(_, _)
BTrailingZerosFrom(x, i) ==
  IF x[i] = 0 THEN LimbBits + BTrailingZerosFrom(x, i + 1)
  ELSE NatTrailingZeros(x[i])

\* number of trailing zero bits of x > 0
BTrailingZeros(x) == BTrailingZerosFrom(x, 1)

\* binary long division of n by d over the k bits of n from bit i down, given
\* the quotient q and remainder r of the bits above them
RECURSIVE BDivBits(_, _, _, _, _, _)
BDivBits(n, d, i, k, q, r) ==
  IF k = 0 THEN <<q, r>>
  ELSE LET r2 == BAdd(BMulSmall(r, 2), BFromNat(BBit(n, i)))
           q2 == BMulSmall(q, 2)
       IN  IF BCmp(r2, d) >= 0
           THEN BDivBits(n, d, i - 1, k - 1, BAdd(q2, <<1>>), BSub(r2, d))
           ELSE BDivBits(n, d, i - 1, k - 1, q2, r2)

\* the same, one limb of bits at a time down to bit 0; once the remainder is
\* zero and only zero bits of n are left, the quotient is shifted into place
RECURSIVE BDivModFrom(_, _, _, _, _)
BDivModFrom(n, d, i, q, r) ==
  IF i < 0 THEN <<q, r>>
  ELSE LET k  == IF i + 1 < LimbBits THEN i + 1 ELSE LimbBits
           qr == BDivBits(n, d, i, k, q, r)
       IN  IF qr[2] = <<>> /\ BTrailingZeros(n) > i - k
           THEN <<BShl(qr[1], i - k + 1), <<>>>>
           ELSE BDivModFrom(n, d, i - k, qr[1], qr[2])

\* quotient and remainder of n / d, for n > 0 and d > 0
BDivMod(n, d) == BDivModFrom(n, d, BBitLen(n) - 1, <<>>, <<>>)

(***************************************************************************)
(* f64 values and arithmetic (IEEE 754 binary64, round to nearest, ties to *)
(* even)                                                                   *)
(***************************************************************************)
MantBits == 53

Zero == <<0, <<>>, 0>>

IsZero(x) == x[2] = <<>>

\* the canonical triple of (-1)^neg * m * 2^e (m made odd)
Canon(neg, m, e) ==
  IF m = <<>> THEN Zero
  ELSE LET z == BTrailingZeros(m) IN <<neg, BShr(m, z), e + z>>

\* (-1)^neg * m * 2^e rounded to MantBits significant bits, ties to even
Round(neg, m, e) ==
  LET len == BBitLen(m) IN
  IF len <= MantBits THEN Canon(neg, m, e)
  ELSE LET shift == len - MantBits
           q     == BShr(m, shift)
           rem   == BSub(m, BShl(q, shift))
           half  == BShl(<<1>>, shift - 1)
           cmp   == BCmp(rem, half)
           up    == cmp > 0 \/ (cmp = 0 /\ BBit(q, 0) = 1)
       IN  Canon(neg, IF up THEN BAdd(q, <<1>>) ELSE q, e + shift)

FromInt(n) ==
  IF n < 0 THEN Canon(1, BFromNat(-n), 0) ELSE Canon(0, BFromNat(n), 0)

FNeg(x) == IF IsZero(x) THEN x ELSE <<1 - x[1], x[2], x[3]>>

\* -1, 0, 1 as |x| is below, equal to, above |y|
MagCmp(x, y) ==
  LET e == IF x[3] < y[3] THEN x[3] ELSE y[3]
  IN  BCmp(BShl(x[2], x[3] - e), BShl(y[2], y[3] - e))

\* -1, 0, 1 as x is below, equal to, above y (partial_cmp on finite values)
FCmp(x, y) ==
  IF IsZero(x) /\ IsZero(y) THEN 0
  ELSE IF IsZero(x) THEN (IF y[1] = 1 THEN 1 ELSE -1)
  ELSE IF IsZero(y) THEN (IF x[1] = 1 THEN -1 ELSE 1)
  ELSE IF x[1] # y[1] THEN (IF x[1] = 1 THEN -1 ELSE 1)
  ELSE IF x[1] = 1 THEN MagCmp(y, x) ELSE MagCmp(x, y)

FLt(x, y) == FCmp(x, y) < 0
FGt(x, y) == FCmp(x, y) > 0
FGe(x, y) == FCmp(x, y) >= 0
FLe(x, y) == FCmp(x, y) <= 0

\* the exact sum and product, not rounded (any number of significant bits)
XAdd(x, y) ==
  IF IsZero(x) THEN y
  ELSE IF IsZero(y) THEN x
  ELSE LET e  == IF x[3] < y[3] THEN x[3] ELSE y[3]
           mx == BShl(x[2], x[3] - e)
           my == BShl(y[2], y[3] - e)
       IN  IF x[1] = y[1] THEN Canon(x[1], BAdd(mx, my), e)
           ELSE IF BCmp(mx, my) >= 0 THEN Canon(x[1], BSub(mx, my), e)
           ELSE Canon(y[1], BSub(my, mx), e)

XMul(x, y) ==
  IF IsZero(x) \/ IsZero(y) THEN Zero
  ELSE Canon((x[1] + y[1]) % 2, BMul(x[2], y[2]), x[3] + y[3])

RoundF(x) == Round(x[1], x[2], x[3])

FAdd(x, y) == RoundF(XAdd(x, y))

FSub(x, y) == FAdd(x, FNeg(y))

FMul(x, y) == RoundF(XMul(x, y))

\* x / y for y # 0: the quotient to at least MantBits + 2 bits, with one more
\* (sticky) bit when the division leaves a remainder, then rounded
FDiv(x, y) ==
  IF IsZero(x) THEN Zero
  ELSE IF y[2] = <<1>> THEN <<(x[1] + y[1]) % 2, x[2], x[3] - y[3]>>
  ELSE LET need == MantBits + 2 + BBitLen(y[2]) - BBitLen(x[2])
           s    == IF need > 0 THEN need ELSE 0
           qr   == BDivMod(BShl(x[2], s), y[2])
           neg  == (x[1] + y[1]) % 2
           e    == x[3] - y[3] - s
       IN  IF qr[2] = <<>> THEN Round(neg, qr[1], e)
           ELSE Round(neg, BAdd(BMulSmall(qr[1], 2), <<1>>), e - 1)

One == FromInt(1)

(***************************************************************************)
(* Option values, arrays and iterator adaptors                             *)
(***************************************************************************)
None == <<>>

Some(x) == <<x>>

\* an Array1<f64> / Array2<f64> with 0-based indices, from integer literals
Array(seq) == [i \in 0..(Len(seq) - 1) |-> FromInt(seq[i + 1])]

Matrix(rows) == [i \in 0..(Len(rows) - 1) |-> Array(rows[i + 1])]

NumRows(t) == Cardinality(DOMAIN t)

NumCols(t) == Cardinality(DOMAIN t[0])

\* Iterator::min_by over a sequence of <<index, value>> pairs: a fold that
\* replaces the running minimum only by a strictly smaller value, so the first
\* of several equal minima is returned
RECURSIVE MinByFrom(_, _, _)
MinByFrom(pairs, i, best) ==
  IF i > Len(pairs) THEN best
  ELSE MinByFrom(pairs, i + 1,
                 IF FCmp(best[2], pairs[i][2]) > 0 THEN pairs[i] ELSE best)

MinBy(pairs) ==
  IF pairs = <<>> THEN None ELSE Some(MinByFrom(pairs, 2, pairs[1]))

(***************************************************************************)
(* The solver's functions                                                  *)
(***************************************************************************)
\* tableau init: a in the top-left block, b in the last column, -c in the
\* last row, zeros elsewhere
BuildTableau(cc, aa, bb) ==
  LET num_constraints == NumRows(aa)
      num_vars        == NumCols(aa)
  IN  [i \in 0..num_constraints |->
        [j \in 0..num_vars |->
          IF i < num_constraints /\ j < num_vars THEN aa[i][j]
          ELSE IF i < num_constraints THEN bb[i]
          ELSE IF j < num_vars THEN FNeg(cc[j])
          ELSE Zero]]

\* IsOptimal with the test val > 0.0 instead of val >= 0.0
IsOptimalStrict(t) ==
  LET last_row_index == NumRows(t) - 1
      last_col_index == NumCols(t) - 1
  IN  \A j \in 0..(last_col_index - 1) : FGt(t[last_row_index][j], Zero)

\* check if optimal solution
IsOptimal(t) ==
  LET last_row_index == NumRows(t) - 1
      last_col_index == NumCols(t) - 1
  IN  \A j \in 0..(last_col_index - 1) : FGe(t[last_row_index][j], Zero)

\* FindPivotColumn returning the first negative entry instead of the least
FindPivotColumnFirstNegative(t, last_row_index) ==
  LET row      == [k \in 1..NumCols(t) |-> <<k - 1, t[last_row_index][k - 1]>>]
      negative == SelectSeq(row, LAMBDA p : FLt(p[2], Zero))
  IN  IF negative = <<>> THEN None ELSE Some(negative[1][1])

FindPivotColumn(t, last_row_index) ==
  LET row      == [k \in 1..NumCols(t) |-> <<k - 1, t[last_row_index][k - 1]>>]
      negative == SelectSeq(row, LAMBDA p : FLt(p[2], Zero))
      least    == MinBy(negative)
  IN  IF least = None THEN None ELSE Some(least[1][1])

\* FindPivotRow with the filter val != 0.0 instead of val > 0.0
FindPivotRowNonZero(t, pivot_col, last_row_index) ==
  LET col      == [k \in 1..last_row_index |-> <<k - 1, t[k - 1][pivot_col]>>]
      nonzero  == SelectSeq(col, LAMBDA p : ~IsZero(p[2]))
      ratios   == [k \in 1..Len(nonzero) |->
                    <<nonzero[k][1],
                      FDiv(t[nonzero[k][1]][NumCols(t) - 1], nonzero[k][2])>>]
      least    == MinBy(ratios)
  IN  IF least = None THEN None ELSE Some(least[1][1])

\* FindPivotRow that filters and divides by column 0 instead of pivot_col
FindPivotRowFirstCol(t, pivot_col, last_row_index) ==
  LET col      == [k \in 1..last_row_index |-> <<k - 1, t[k - 1][0]>>]
      positive == SelectSeq(col, LAMBDA p : FGt(p[2], Zero))
      ratios   == [k \in 1..Len(positive) |->
                    <<positive[k][1],
                      FDiv(t[positive[k][1]][NumCols(t) - 1], positive[k][2])>>]
      least    == MinBy(ratios)
  IN  IF least = None THEN None ELSE Some(least[1][1])

FindPivotRow(t, pivot_col, last_row_index) ==
  LET col      == [k \in 1..last_row_index |-> <<k - 1, t[k - 1][pivot_col]>>]
      positive == SelectSeq(col, LAMBDA p : FGt(p[2], Zero))
      ratios   == [k \in 1..Len(positive) |->
                    <<positive[k][1],
                      FDiv(t[positive[k][1]][NumCols(t) - 1], positive[k][2])>>]
      least    == MinBy(ratios)
  IN  IF least = None THEN None ELSE Some(least[1][1])

\* divide each val in the pivot row by the found pivot val
NormalizeRow(t, pivot_row, pivot_value) ==
  [t EXCEPT ![pivot_row] =
     [j \in DOMAIN t[pivot_row] |-> FDiv(t[pivot_row][j], pivot_value)]]

\* the inner loop over j for row i, in place, with row_factor read beforehand
RECURSIVE EliminateRow(_, _, _, _, _)
EliminateRow(t, i, pivot_row, row_factor, j) ==
  IF j >= NumCols(t) THEN t
  ELSE EliminateRow(
         [t EXCEPT ![i][j] = FSub(t[i][j], FMul(row_factor, t[pivot_row][j]))],
         i, pivot_row, row_factor, j + 1)

\* the outer loop over the rows i # pivot_row, in place
RECURSIVE EliminateRows(_, _, _, _)
EliminateRows(t, i, pivot_row, pivot_col) ==
  IF i >= NumRows(t) THEN t
  ELSE IF i = pivot_row THEN EliminateRows(t, i + 1, pivot_row, pivot_col)
  ELSE EliminateRows(EliminateRow(t, i, pivot_row, t[i][pivot_col], 0),
                     i + 1, pivot_row, pivot_col)

\* the inner loop reading tableau[[i, pivot_col]] afresh for every j
RECURSIVE EliminateRowLive(_, _, _, _, _)
EliminateRowLive(t, i, pivot_row, pivot_col, j) ==
  IF j >= NumCols(t) THEN t
  ELSE EliminateRowLive(
         [t EXCEPT ![i][j] =
            FSub(t[i][j], FMul(t[i][pivot_col], t[pivot_row][j]))],
         i, pivot_row, pivot_col, j + 1)

RECURSIVE EliminateRowsLive(_, _, _, _)
EliminateRowsLive(t, i, pivot_row, pivot_col) ==
  IF i >= NumRows(t) THEN t
  ELSE IF i = pivot_row THEN EliminateRowsLive(t, i + 1, pivot_row, pivot_col)
  ELSE EliminateRowsLive(EliminateRowLive(t, i, pivot_row, pivot_col, 0),
                         i + 1, pivot_row, pivot_col)

\* PivotOperation without the row_factor snapshot
PivotOperationLive(t, pivot_row, pivot_col) ==
  EliminateRowsLive(NormalizeRow(t, pivot_row, t[pivot_row][pivot_col]),
                    0, pivot_row, pivot_col)

\* pivot_operation for a non-zero pivot value
PivotOperation(t, pivot_row, pivot_col) ==
  EliminateRows(NormalizeRow(t, pivot_row, t[pivot_row][pivot_col]),
                0, pivot_row, pivot_col)

\* the scan of column j from row i on: <<is_basic, basic_row_index>>
RECURSIVE ScanColumn(_, _, _, _)
ScanColumn(t, j, i, basic_row_index) ==
  IF i >= NumRows(t) THEN <<TRUE, basic_row_index>>
  ELSE IF t[i][j] = One
       THEN IF basic_row_index = None
            THEN ScanColumn(t, j, i + 1, Some(i))
            ELSE <<FALSE, basic_row_index>>
  ELSE IF ~IsZero(t[i][j]) THEN <<FALSE, basic_row_index>>
  ELSE ScanColumn(t, j, i + 1, basic_row_index)

ExtractSolution(t) ==
  [j \in 0..(NumCols(t) - 2) |->
    LET scan == ScanColumn(t, j, 0, None)
    IN  IF scan[1] /\ scan[2] # None THEN t[scan[2][1]][NumCols(t) - 1]
        ELSE Zero]

(***************************************************************************)
(* Inputs                                                                  *)
(***************************************************************************)
MaxCost == 2

MaxPivots == 5

MaxRhs == 1

Coef == -1..1

Cost == -1..MaxCost

Rhs == -1..MaxRhs

\* <<number of constraints, number of structural columns>>
Shapes == {<<1, 2>>, <<2, 1>>, <<2, 2>>}

\* structural columns st followed by the identity slack block
Augment(st, m, s) ==
  [i \in 0..(m - 1) |->
    [j \in 0..(s + m - 1) |->
      IF j < s THEN FromInt(st[i][j])
      ELSE IF j - s = i THEN One ELSE Zero]]

\* structural costs followed by zero costs for the slack columns
Costs(cs, m, s) ==
  [j \in 0..(s + m - 1) |-> IF j < s THEN FromInt(cs[j]) ELSE Zero]

RhsArray(bs, m) == [i \in 0..(m - 1) |-> FromInt(bs[i])]

\* the problem of main, with its two right-hand sides
MainC == Array(<<2, -3, 0, -5, 0, 0, 0>>)

MainA ==
  Matrix(<< <<-1, 1, -1, -1, 1, 0, 0>>,
            <<2, 4, 0, 0, 0, 1, 0>>,
            <<0, 0, 1, 1, 0, 0, 1>> >>)

MainB == Array(<<8, 10, 3>>)

MainN == Array(<<8, 0, 3>>)

(***************************************************************************)
(* simplex_solver as a state machine                                       *)
(***************************************************************************)
\* pivots counts the pivots performed so far, up to MaxPivots
VARIABLES c, a, b, tableau, pc, pivot_col, pivot_row,
          solution, objective_value, pivots

vars == <<c, a, b, tableau, pc, pivot_col, pivot_row,
          solution, objective_value, pivots>>

\* the state on entry to the loop of simplex_solver(cc, &aa, &bb)
Start(cc, aa, bb) ==
  /\ c = cc
  /\ a = aa
  /\ b = bb
  /\ tableau = BuildTableau(cc, aa, bb)
  /\ pc = "test"
  /\ pivot_col = None
  /\ pivot_row = None
  /\ solution = None
  /\ objective_value = None
  /\ pivots = 0

\* inputs of m constraints over s structural columns and the slack block
AugmentedInit(m, s, coefs, costs, rhss) ==
  \E st \in [0..(m - 1) -> [0..(s - 1) -> coefs]] :
    \E cs \in [0..(s - 1) -> costs] :
      \E bs \in [0..(m - 1) -> rhss] :
        Start(Costs(cs, m, s), Augment(st, m, s), RhsArray(bs, m))

SmallInit == \E sh \in Shapes : AugmentedInit(sh[1], sh[2], Coef, Cost, Rhs)

\* two constraints whose ratios b/a are not representable in binary
RoundingInit == AugmentedInit(2, 1, {3, 19, 27}, {1}, {7, 21, 63})

\* the two calls of main
MainInit == \E bb \in {MainB, MainN} : Start(MainC, MainA, bb)

Init == SmallInit \/ RoundingInit \/ MainInit

\* the optimality test succeeds: break, extract and return Some
Optimal ==
  /\ pc = "test"
  /\ IsOptimal(tableau)
  /\ solution' = Some(ExtractSolution(tableau))
  /\ objective_value' = Some(tableau[NumRows(tableau) - 1][NumCols(tableau) - 1])
  /\ pc' = "some"
  /\ UNCHANGED <<c, a, b, tableau, pivot_col, pivot_row, pivots>>

\* the optimality test fails: find the pivot column, `?` returns None
SelectColumn ==
  /\ pc = "test"
  /\ ~IsOptimal(tableau)
  /\ pivot_col' = FindPivotColumn(tableau, NumRows(tableau) - 1)
  /\ pc' = IF pivot_col' = None THEN "none" ELSE "row"
  /\ UNCHANGED <<c, a, b, tableau, pivot_row, solution, objective_value, pivots>>

\* find the pivot row, or report unboundedness and return None
SelectRow ==
  /\ pc = "row"
  /\ pivot_row' = FindPivotRow(tableau, pivot_col[1], NumRows(tableau) - 1)
  /\ pc' = IF pivot_row' = None THEN "none" ELSE "pivot"
  /\ UNCHANGED <<c, a, b, tableau, pivot_col, solution, objective_value, pivots>>

\* pivot_operation, which panics on a zero pivot value
Pivot ==
  /\ pc = "pivot"
  /\ IF IsZero(tableau[pivot_row[1]][pivot_col[1]])
     THEN /\ pc' = "panic"
          /\ UNCHANGED <<tableau, pivots>>
     ELSE /\ tableau' = PivotOperation(tableau, pivot_row[1], pivot_col[1])
          /\ pivots' = IF pivots < MaxPivots THEN pivots + 1 ELSE pivots
          /\ pc' = "test"
  /\ UNCHANGED <<c, a, b, pivot_col, pivot_row, solution, objective_value>>

Next == Optimal \/ SelectColumn \/ SelectRow \/ Pivot

Spec == Init /\ [][Next]_vars

(***************************************************************************)
(* Properties                                                              *)
(***************************************************************************)
pivoted == pivots > 0

NumConstraints == NumRows(a)

NumVars == NumCols(a)

NumStructural == NumVars - NumConstraints

LastRow == NumRows(tableau) - 1

LastCol == NumCols(tableau) - 1

\* the tableau the solver starts from
InitialTableau == BuildTableau(c, a, b)

\* the precondition of the solver: rhs entry-wise >= 0
RhsNonNeg == \A i \in DOMAIN b : FGe(b[i], Zero)

\* the last num_constraints columns of a are the identity slack block
AugmentedForm ==
  \A i \in 0..(NumConstraints - 1) : \A k \in 0..(NumConstraints - 1) :
    a[i][NumStructural + k] = IF i = k THEN One ELSE Zero

\* u[j]*v[j] summed over j..last in exact arithmetic
RECURSIVE XDot(_, _, _, _)
XDot(u, v, j, last) ==
  IF j > last THEN Zero ELSE XAdd(XMul(u[j], v[j]), XDot(u, v, j + 1, last))

\* column k of t has no strictly positive entry among the constraint rows
NoPositiveEntry(t, k) ==
  \A i \in 0..(NumRows(t) - 2) : ~FGt(t[i][k], Zero)

\* column j is the leftmost of the most negative entries among the first
\* num_vars entries of the objective row of t
IsDantzigColumn(t, j) ==
  LET obj == t[NumRows(t) - 1] IN
  /\ j \in 0..(NumCols(t) - 2)
  /\ FLt(obj[j], Zero)
  /\ \A k \in 0..(NumCols(t) - 2) : FLe(obj[j], obj[k])
  /\ \A k \in 0..(j - 1) : FLt(obj[j], obj[k])

IsMain == c = MainC /\ a = MainA /\ b \in {MainB, MainN}

\* C1: for an input in augmented form with rhs >= 0, a returned solution
\* satisfies every original inequality: the structural part of row i of a
\* times x is at most rhs[i]
C1_SatisfiesConstraints ==
  (pc = "some" /\ AugmentedForm /\ RhsNonNeg) =>
    \A i \in 0..(NumConstraints - 1) :
      FLe(XDot(a[i], solution[1], 0, NumStructural - 1), b[i])

\* C2: for an input in augmented form with rhs >= 0, the returned objective
\* value equals the objective evaluated at the returned solution
C2_ObjectiveConsistent ==
  (pc = "some" /\ AugmentedForm /\ RhsNonNeg) =>
    objective_value[1] = XDot(c, solution[1], 0, NumVars - 1)

\* C3: when the selected entering column has no strictly positive entry in a
\* constraint row, the solver's next step returns None and leaves the tableau
\* as it is, and nothing happens after None is returned
C3_UnboundedStops ==
  [][/\ (pc = "row" /\ NoPositiveEntry(tableau, pivot_col[1])) =>
          (pc' = "none" /\ tableau' = tableau /\ pivots' = pivots)
     /\ pc = "none" => (pc' = "none" /\ tableau' = tableau)]_vars

C3_Witness ==
  /\ pc = "none"
  /\ pivoted
  /\ pivot_col # None
  /\ pivot_row = None
  /\ NoPositiveEntry(tableau, pivot_col[1])

\* C4 as stated: with rhs >= 0, if some column of the initial tableau has a
\* negative objective-row entry and no positive entry among the constraint
\* rows, the solver returns None without any pivot
C4_AnyUnboundedColumn ==
  (/\ RhsNonNeg
   /\ \E j \in 0..LastCol :
        /\ FLt(InitialTableau[LastRow][j], Zero)
        /\ NoPositiveEntry(InitialTableau, j))
  => (~pivoted /\ pc \notin {"some", "panic"})

\* the precondition of C4 as amended: rhs >= 0 and column j, the leftmost of
\* the most negative objective-row entries of the initial tableau, has no
\* positive entry among the constraint rows
DantzigColumnUnbounded(j) ==
  /\ RhsNonNeg
  /\ IsDantzigColumn(InitialTableau, j)
  /\ NoPositiveEntry(InitialTableau, j)

\* C4 amended: under that precondition the solver selects column j, finds no
\* pivot row and returns None, without any pivot
C4_DantzigColumnUnbounded ==
  /\ [](\A j \in 0..(LastCol - 1) :
          DantzigColumnUnbounded(j) =>
            /\ pivots = 0
            /\ tableau = InitialTableau
            /\ pc \in {"test", "row", "none"}
            /\ pc # "test" => pivot_col = Some(j))
  /\ [][\A j \in 0..(LastCol - 1) :
          DantzigColumnUnbounded(j) =>
            /\ pc = "test" => pc' = "row"
            /\ pc = "row" => pc' = "none"]_vars

C4_Witness ==
  /\ pc = "none"
  /\ ~pivoted
  /\ RhsNonNeg
  /\ IsDantzigColumn(InitialTableau, pivot_col[1])
  /\ \E k \in 0..(LastCol - 1) :
       /\ k # pivot_col[1]
       /\ FLt(InitialTableau[LastRow][k], Zero)
       /\ ~NoPositiveEntry(InitialTableau, k)

\* C5: on the problem of main, with rhs [8,10,3] and with rhs [8,0,3], the
\* solver terminates after finitely many pivots with a present result whose
\* entries are all >= 0.  Every cycle of the loop passes through a pivot and
\* every step before the return is enabled, so a run with fewer than
\* MaxPivots pivots that never returns None is a run that returns Some
C5_MainTerminates ==
  IsMain =>
    /\ pivots < MaxPivots
    /\ pc \notin {"none", "panic"}
    /\ pc = "some" => \A j \in 0..(NumVars - 1) : FGe(solution[1][j], Zero)

C5_Witness ==
  /\ IsMain
  /\ b = MainN
  /\ pivoted
  /\ pc = "some"
  /\ \A j \in 0..(NumVars - 1) : FGe(solution[1][j], Zero)

\* the value C6 gives variable j: the last-column entry of the row holding the
\* only non-zero entry of column j among the constraint rows when that entry
\* is 1, and 0 otherwise
ConstraintRowsValue(t, j) ==
  LET nonzero == {i \in 0..(NumRows(t) - 2) : ~IsZero(t[i][j])}
  IN  IF Cardinality(nonzero) = 1 /\ \A i \in nonzero : t[i][j] = One
      THEN t[CHOOSE i \in nonzero : TRUE][NumCols(t) - 1]
      ELSE Zero

\* C6: the extracted value of every variable is decided by the constraint
\* rows alone, whatever the objective-row entry of its column
C6_ConstraintRowsOnly ==
  pc = "some" =>
    \A j \in 0..(NumVars - 1) :
      solution[1][j] = ConstraintRowsValue(tableau, j)

\* C7: the selected pivot column is never the last column: it is the leftmost
\* of the most negative among the first num_vars objective-row entries
C7_IgnoresLastEntry ==
  pc = "row" => IsDantzigColumn(tableau, pivot_col[1])

\* C8: with rhs >= 0, the last-column entry of every constraint row is >= 0
\* after every pivot
C8_StaysFeasible ==
  RhsNonNeg => \A i \in 0..(LastRow - 1) : FGe(tableau[i][LastCol], Zero)

\* C9: a pivot on (r, k) with pivot entry p divides row r by p and subtracts
\* from every other row i its old entry in column k times the new row r, in
\* every column; afterwards column k is 1 in row r and 0 elsewhere
C9_PivotExact ==
  [][(pc = "pivot" /\ pc' = "test") =>
       LET r == pivot_row[1]
           k == pivot_col[1]
           p == tableau[r][k]
       IN  /\ \A j \in 0..LastCol : tableau'[r][j] = FDiv(tableau[r][j], p)
           /\ \A i \in 0..LastRow : \A j \in 0..LastCol :
                i # r => tableau'[i][j] =
                           FSub(tableau[i][j],
                                FMul(tableau[i][k], tableau'[r][j]))
           /\ tableau'[r][k] = One
           /\ \A i \in 0..LastRow : i # r => IsZero(tableau'[i][k])]_vars

C9_Witness ==
  /\ pc = "test"
  /\ pivoted
  /\ tableau[pivot_row[1]][pivot_col[1]] = One
  /\ \E i \in 0..LastRow :
       i # pivot_row[1] /\ tableau[i] # InitialTableau[i]

\* C10: every pivot the solver performs is on a strictly positive entry, so
\* the zero-pivot panic never fires
C10_PivotPositive ==
  /\ pc # "panic"
  /\ pc = "pivot" => FGt(tableau[pivot_row[1]][pivot_col[1]], Zero)

C10_Witness ==
  /\ pc = "pivot"
  /\ pivoted
  /\ FGt(tableau[pivot_row[1]][pivot_col[1]], Zero)

\* every value the solver handles lies far inside the normal range of f64,
\* so no operation overflows or produces a subnormal
InRange ==
  \A i \in 0..LastRow : \A j \in 0..LastCol :
    LET x == tableau[i][j]
    IN  IsZero(x) \/ (x[3] > -200 /\ x[3] + BBitLen(x[2]) < 200)

====
